---- MODULE Spec2Model ----
(***************************************************************************)
(* rakuda: the configuration tree of a Builder (nodes, actions, children), *)
(* its compilation by Build into a router (a ServeMux plus a not-found     *)
(* handler) and the dispatch of requests by router.ServeHTTP.              *)
(*                                                                         *)
(* Paths are sequences of segments: "/api/v1/items" is <<"api","v1",       *)
(* "items">> and the root "/" is <<>>.  A route key method+" "+fullPattern *)
(* is the pair <<method, fullPattern>>.  A handler is identified by the    *)
(* number of the registration call that passed it, so the order of the     *)
(* calls can be read off the handlers.                                     *)
(***************************************************************************)
EXTENDS Naturals, Sequences, FiniteSets

\* ---------------------------------------------------------------- bounds
MaxNodes == 3
MaxActions == 3

\* the requests one router serves at the same time
MaxInflight == 2

\* the messages sent to the channel of one SSE stream
MaxMessages == 3

\* ---------------------------------------------------------------- inputs
\* the (method, pattern) pairs passed to Get and Post, the segments passed to
\* Route, the conflict policies assigned to OnConflict: "warn" is NewBuilder's
\* default, "custom" returns errors.New("custom conflict error") as the
\* tests' policy does, "keyed" returns an error that quotes the route key
Methods == {"GET", "POST"}
HandlerInputs == {<<"GET", "/x">>, <<"POST", "/x">>, <<"GET", "/">>}
ScopePatterns == {"/a"}
Policies == {"warn", "custom", "keyed"}
RequestPaths ==
  { [segs |-> <<>>, slash |-> TRUE],
    [segs |-> <<"x">>, slash |-> FALSE],
    [segs |-> <<"a">>, slash |-> FALSE],
    [segs |-> <<"a">>, slash |-> TRUE],
    [segs |-> <<"a", "x">>, slash |-> FALSE],
    [segs |-> <<"a", "a", "x">>, slash |-> FALSE] }
Requests == [method : Methods, path : RequestPaths]

\* registrations that write the whole path on the root builder, or no path at
\* all, next to the ones that rely on the scopes
LiveInputs == {<<"GET", "/x">>, <<"GET", "/">>}
LiveRequests == {r \in Requests : r.method = "GET"}
ServeInputs == {<<"GET", "/x">>, <<"GET", "/{id}">>, <<"GET", "/">>}
ServeRequests ==
  {r \in Requests : r.method = "GET" /\ r.path.segs \in {<<>>, <<"x">>, <<"a">>, <<"a", "x">>}
                                     /\ (r.path.slash <=> r.path.segs = <<>>)}
\* requests under the methods a handler can be registered for here and under
\* HEAD, for which no registration method exists
RequestMethods == {"GET", "POST", "HEAD"}
MethodRequests ==
  {r \in [method : RequestMethods, path : RequestPaths] :
     /\ r.path.segs \in {<<>>, <<"x">>, <<"a", "x">>}
     /\ r.path.slash <=> r.path.segs = <<>>}
\* the messages of a stream: a plain value, an Event with a name, a value
\* json.Marshal refuses, an Event with a name around such a value
Messages ==
  { [name |-> "", data |-> "hello"],
    [name |-> "greeting", data |-> "hello"],
    [name |-> "", data |-> "unmarshalable"],
    [name |-> "greeting", data |-> "unmarshalable"] }
\* what a write to the ResponseWriter can do to an event: both lines written,
\* the write of the event name fails, the write of the data fails
WriteResults == {"ok", "nameFails", "dataFails"}
DirectInputs == {<<"GET", "">>, <<"GET", "/">>, <<"GET", "/x">>, <<"GET", "/a/x">>}

Root == 1
NoHandler == "nil"
DefaultNotFound == "default404"
CustomNotFound == "custom404"
NoKey == <<>>
NoError == [msg |-> "nil", key |-> NoKey]
NoRouter == [built |-> FALSE, mux |-> <<>>, notFoundHandler |-> NoHandler]
NoTrace == [built |-> FALSE, tree |-> <<>>, policy |-> "nil", notFound |-> NoHandler,
            registered |-> {}, mux |-> <<>>, err |-> NoError, log |-> <<>>]
NoResponse == [outcome |-> "nil", pattern |-> NoKey, by |-> NoHandler, events |-> <<>>,
               params |-> <<>>]
NoWalk == [done |-> FALSE, b |-> 0, calls |-> <<>>]
NoRequest == [method |-> "nil", path |-> [segs |-> <<>>, slash |-> FALSE]]
NoFound == [kind |-> "nil", pattern |-> NoKey, index |-> 0, matches |-> <<>>]
NoStream == [pc |-> "start", status |-> 0, ch |-> <<>>, closed |-> FALSE, cancelled |-> FALSE,
             sent |-> 0, received |-> <<>>, out |-> <<>>, cause |-> "nil"]
Idle == [pc |-> "idle", r |-> NoRequest, found |-> NoFound, response |-> NoResponse]

VARIABLES nodes, stack, OnConflict, notFoundHandler, router, err, trace, response,
          walked, inflight, sse

vars == <<nodes, stack, OnConflict, notFoundHandler, router, err, trace, response,
          walked, inflight, sse>>

\* the variables of the builder and of the routers it builds
routing == <<nodes, stack, OnConflict, notFoundHandler, router, err, trace, response,
             walked, inflight>>

\* ---------------------------------------------------------------- helpers
RECURSIVE SumSeq(_)
SumSeq(s) == IF s = <<>> THEN 0 ELSE Head(s) + SumSeq(Tail(s))

\* the number of actions recorded in the whole tree t
ActionCount(t) == SumSeq([i \in 1..Len(t) |-> Len(t[i].actions)])

\* the segments of a pattern string (path.Clean's view of it)
Segments(p) ==
  CASE p = "" -> <<>>
    [] p = "/" -> <<>>
    [] p = "/x" -> <<"x">>
    [] p = "/a" -> <<"a">>
    [] p = "/a/x" -> <<"a", "x">>
    [] p = "/{$}" -> <<"{$}">>
    [] p = "/{id}" -> <<"{id}">>

\* path.Join(prefix, p) for a clean prefix: empty elements are dropped, the
\* result is cleaned, so a trailing slash never survives
Join(prefix, p) == prefix \o Segments(p)

\* ---------------------------------------------------------------- builder
newNode(pattern) == [pattern |-> pattern, actions |-> <<>>, children |-> <<>>]

\* the builder in scope: the one passed to the innermost running scope
\* callback (it shadows the outer ones, as in the tests), else the root builder
Builders == IF stack = <<>> THEN {Root} ELSE {stack[Len(stack)]}

\* faulty variant: a registration of a method and pattern the node already has
\* replaces the earlier one
registerHandler_Replace(b, method, pattern, handler) ==
  LET p == IF pattern = "/" THEN "/{$}" ELSE pattern
      a == [kind |-> "handler", method |-> method, pattern |-> p, handler |-> handler]
      same(x) == x.kind = "handler" /\ x.method = method /\ x.pattern = p
  IN  nodes' = [nodes EXCEPT ![b].actions =
                  IF \E k \in 1..Len(@) : same(@[k])
                  THEN [k \in 1..Len(@) |-> IF same(@[k]) THEN a ELSE @[k]]
                  ELSE Append(@, a)]

registerHandler(b, method, pattern, handler) ==
  LET p == IF pattern = "/" THEN "/{$}" ELSE pattern
  IN  nodes' = [nodes EXCEPT ![b].actions =
                  Append(@, [kind |-> "handler", method |-> method,
                             pattern |-> p, handler |-> handler])]

Handle(b, method, pattern) ==
  /\ ActionCount(nodes) < MaxActions
  /\ registerHandler(b, method, pattern, ActionCount(nodes) + 1)
  /\ UNCHANGED <<stack, OnConflict, notFoundHandler, router, err, trace, response, walked, inflight, sse>>

Use(b) ==
  /\ ActionCount(nodes) < MaxActions
  /\ nodes' = [nodes EXCEPT ![b].actions =
                 Append(@, [kind |-> "middleware",
                            middleware |-> ActionCount(nodes) + 1])]
  /\ UNCHANGED <<stack, OnConflict, notFoundHandler, router, err, trace, response, walked, inflight, sse>>

\* faulty variant: a Route for a segment a child of the node already has
\* opens that child again
Route_Reuse(b, pattern) ==
  /\ Len(nodes) < MaxNodes
  /\ LET same == {j \in 1..Len(nodes[b].children) :
                    nodes[nodes[b].children[j]].pattern = pattern}
     IN  IF same # {}
         THEN /\ nodes' = nodes
              /\ stack' = Append(stack, nodes[b].children[CHOOSE j \in same : TRUE])
         ELSE /\ nodes' = Append([nodes EXCEPT ![b].children = Append(@, Len(nodes) + 1)],
                                 newNode(pattern))
              /\ stack' = Append(stack, Len(nodes) + 1)
  /\ UNCHANGED <<OnConflict, notFoundHandler, router, err, trace, response, walked, inflight, sse>>

\* Route and Group up to the call of fn: the child is appended and fn starts
\* running with the child's builder
Route(b, pattern) ==
  /\ Len(nodes) < MaxNodes
  /\ nodes' = Append([nodes EXCEPT ![b].children = Append(@, Len(nodes) + 1)],
                     newNode(pattern))
  /\ stack' = Append(stack, Len(nodes) + 1)
  /\ UNCHANGED <<OnConflict, notFoundHandler, router, err, trace, response, walked, inflight, sse>>

Group(b) ==
  /\ Len(nodes) < MaxNodes
  /\ nodes' = Append([nodes EXCEPT ![b].children = Append(@, Len(nodes) + 1)],
                     newNode(""))
  /\ stack' = Append(stack, Len(nodes) + 1)
  /\ UNCHANGED <<OnConflict, notFoundHandler, router, err, trace, response, walked, inflight, sse>>

\* fn returns: its builder goes out of scope
ScopeReturn ==
  /\ stack # <<>>
  /\ stack' = SubSeq(stack, 1, Len(stack) - 1)
  /\ UNCHANGED <<nodes, OnConflict, notFoundHandler, router, err, trace, response, walked, inflight, sse>>

NotFound(handler) ==
  /\ notFoundHandler # handler
  /\ notFoundHandler' = handler
  /\ UNCHANGED <<nodes, stack, OnConflict, router, err, trace, response, walked, inflight, sse>>

SetOnConflict(p) ==
  /\ OnConflict # p
  /\ OnConflict' = p
  /\ UNCHANGED <<nodes, stack, notFoundHandler, router, err, trace, response, walked, inflight, sse>>


\* ---------------------------------------------------------------- Build
\* the conflict policy's answer for a route key
OnConflictResult(policy, routeKey) ==
  CASE policy = "warn" -> NoError
    [] policy = "custom" -> [msg |-> "custom conflict error", key |-> NoKey]
    [] policy = "keyed" -> [msg |-> "route conflict", key |-> routeKey]

\* phase 1: the middlewares among n's actions, in declared order
nodeMiddlewares(t, n) ==
  LET ms == SelectSeq(t[n].actions, LAMBDA a : a.kind = "middleware")
  IN  [i \in 1..Len(ms) |-> ms[i].middleware]

isMiddleware(a) == a.kind = "middleware"
isHandler(a) == a.kind = "handler"

\* faulty variant: the node's own middlewares are put in front of the inherited ones
combinedMiddlewares_OwnFirst(inheritedMiddlewares, own) == own \o inheritedMiddlewares

combinedMiddlewares(inheritedMiddlewares, own) == inheritedMiddlewares \o own

\* faulty variant: m is put inside the wrappers next already has
Wrap_Inside(m, next) == [next EXCEPT !.wrappers = @ \o <<m>>]

\* m(next): a handler that runs m's entry, then next, then m's exit; wrappers
\* lists the wrapping middlewares from the outermost to the innermost
Wrap(m, next) == [next EXCEPT !.wrappers = <<m>> \o @]

\* faulty variant: the loop runs upwards, for i := 0; i < len(combinedMiddlewares); i++
RECURSIVE wrapLoop_Ascending(_, _, _)
wrapLoop_Ascending(chain, i, handler) ==
  IF i < 1 THEN handler
  ELSE wrapLoop_Ascending(chain, i - 1, Wrap(chain[Len(chain) - i + 1], handler))

\* for i := len(combinedMiddlewares) - 1; i >= 0; i-- { handler = combinedMiddlewares[i](handler) }
RECURSIVE wrapLoop(_, _, _)
wrapLoop(chain, i, handler) ==
  IF i < 1 THEN handler ELSE wrapLoop(chain, i - 1, Wrap(chain[i], handler))

finalHandler(chain, raw) == wrapLoop(chain, Len(chain), [wrappers |-> <<>>, raw |-> raw])

\* faulty variant: the prefix of the scopes is left out of the full pattern
routeKeyOf_Local(prefix, ha) == <<ha.method, Segments(ha.pattern)>>

routeKeyOf(prefix, ha) == <<ha.method, Join(prefix, ha.pattern)>>

Event(ev, n, key, handler) == [ev |-> ev, node |-> n, key |-> key, handler |-> handler]

\* faulty variant: a duplicate the policy lets pass replaces the entry registered first
handleAction_Overwrite(n, ha, prefix, chain, policy, st) ==
  LET routeKey == routeKeyOf(prefix, ha)
      entry == [pattern |-> routeKey, handler |-> finalHandler(chain, ha.handler)]
  IN  IF routeKey \in st.registered
      THEN LET e == OnConflictResult(policy, routeKey)
           IN  [st EXCEPT !.err = e,
                          !.mux = IF e # NoError THEN @
                                  ELSE [i \in 1..Len(@) |->
                                          IF @[i].pattern = routeKey THEN entry ELSE @[i]],
                          !.log = Append(@, Event("conflict", n, routeKey, ha.handler))]
      ELSE [st EXCEPT !.registered = @ \cup {routeKey},
                      !.mux = Append(@, entry),
                      !.log = Append(@, Event("handle", n, routeKey, ha.handler))]

\* faulty variant: the policy is given the handler's local pattern, not the route key
handleAction_LocalKey(n, ha, prefix, chain, policy, st) ==
  LET routeKey == routeKeyOf(prefix, ha)
  IN  IF routeKey \in st.registered
      THEN LET e == OnConflictResult(policy, <<ha.method, Segments(ha.pattern)>>)
           IN  [st EXCEPT !.err = e,
                          !.log = Append(@, Event("conflict", n, routeKey, ha.handler))]
      ELSE [st EXCEPT !.registered = @ \cup {routeKey},
                      !.mux = Append(@, [pattern |-> routeKey,
                                         handler |-> finalHandler(chain, ha.handler)]),
                      !.log = Append(@, Event("handle", n, routeKey, ha.handler))]

\* faulty variant: a route key is looked up among the keys of its own scope only
handleAction_PerScope(n, ha, prefix, chain, policy, st) ==
  LET routeKey == routeKeyOf(prefix, ha)
  IN  IF <<n, routeKey>> \in st.registered
      THEN LET e == OnConflictResult(policy, routeKey)
           IN  [st EXCEPT !.err = e,
                          !.log = Append(@, Event("conflict", n, routeKey, ha.handler))]
      ELSE [st EXCEPT !.registered = @ \cup {<<n, routeKey>>},
                      !.mux = Append(@, [pattern |-> routeKey,
                                         handler |-> finalHandler(chain, ha.handler)]),
                      !.log = Append(@, Event("handle", n, routeKey, ha.handler))]

\* faulty variant: a duplicate the policy lets pass is registered next to the
\* entry registered first
handleAction_Reinsert(n, ha, prefix, chain, policy, st) ==
  LET routeKey == routeKeyOf(prefix, ha)
      entry == [pattern |-> routeKey, handler |-> finalHandler(chain, ha.handler)]
  IN  IF routeKey \in st.registered
      THEN LET e == OnConflictResult(policy, routeKey)
           IN  [st EXCEPT !.err = e,
                          !.mux = IF e # NoError THEN @ ELSE Append(@, entry),
                          !.log = Append(@, Event("conflict", n, routeKey, ha.handler))]
      ELSE [st EXCEPT !.registered = @ \cup {routeKey},
                      !.mux = Append(@, entry),
                      !.log = Append(@, Event("handle", n, routeKey, ha.handler))]

\* faulty variant: a registration is a conflict when its path is registered,
\* under whatever method
handleAction_PathOnly(n, ha, prefix, chain, policy, st) ==
  LET routeKey == routeKeyOf(prefix, ha)
  IN  IF \E k \in st.registered : k[2] = routeKey[2]
      THEN LET e == OnConflictResult(policy, routeKey)
           IN  [st EXCEPT !.err = e,
                          !.log = Append(@, Event("conflict", n, routeKey, ha.handler))]
      ELSE [st EXCEPT !.registered = @ \cup {routeKey},
                      !.mux = Append(@, [pattern |-> routeKey,
                                         handler |-> finalHandler(chain, ha.handler)]),
                      !.log = Append(@, Event("handle", n, routeKey, ha.handler))]

\* phase 2, one handler action: conflict branch or registration
handleAction(n, ha, prefix, chain, policy, st) ==
  LET routeKey == routeKeyOf(prefix, ha)
  IN  IF routeKey \in st.registered
      THEN LET e == OnConflictResult(policy, routeKey)
           IN  [st EXCEPT !.err = e,
                          !.log = Append(@, Event("conflict", n, routeKey, ha.handler))]
      ELSE [st EXCEPT !.registered = @ \cup {routeKey},
                      !.mux = Append(@, [pattern |-> routeKey,
                                         handler |-> finalHandler(chain, ha.handler)]),
                      !.log = Append(@, Event("handle", n, routeKey, ha.handler))]

\* faulty variant: a handler gets only the middlewares of its scope declared before it
RECURSIVE handlerLoop_DeclaredBefore(_, _, _, _, _, _, _)
handlerLoop_DeclaredBefore(t, n, i, prefix, chain, policy, st) ==
  IF i > Len(t[n].actions) \/ st.err # NoError THEN st
  ELSE IF t[n].actions[i].kind # "handler"
       THEN handlerLoop_DeclaredBefore(t, n, i + 1, prefix, chain, policy, st)
       ELSE LET later == {t[n].actions[k].middleware :
                            k \in {l \in (i + 1)..Len(t[n].actions) :
                                     isMiddleware(t[n].actions[l])}}
                seen == SelectSeq(chain, LAMBDA m : m \notin later)
            IN  handlerLoop_DeclaredBefore(t, n, i + 1, prefix, chain, policy,
                  handleAction(n, t[n].actions[i], prefix, seen, policy, st))

\* faulty variant: the loop goes on after the policy has returned an error
RECURSIVE handlerLoop_NoStop(_, _, _, _, _, _, _)
handlerLoop_NoStop(t, n, i, prefix, chain, policy, st) ==
  IF i > Len(t[n].actions) THEN st
  ELSE IF t[n].actions[i].kind # "handler"
       THEN handlerLoop_NoStop(t, n, i + 1, prefix, chain, policy, st)
       ELSE handlerLoop_NoStop(t, n, i + 1, prefix, chain, policy,
              LET st1 == handleAction(n, t[n].actions[i], prefix, chain, policy, st)
              IN  IF st.err # NoError THEN [st1 EXCEPT !.err = st.err] ELSE st1)

RECURSIVE handlerLoop(_, _, _, _, _, _, _)
handlerLoop(t, n, i, prefix, chain, policy, st) ==
  IF i > Len(t[n].actions) \/ st.err # NoError THEN st
  ELSE IF t[n].actions[i].kind # "handler"
       THEN handlerLoop(t, n, i + 1, prefix, chain, policy, st)
       ELSE handlerLoop(t, n, i + 1, prefix, chain, policy,
                        handleAction(n, t[n].actions[i], prefix, chain, policy, st))

RECURSIVE traverse(_, _, _, _, _, _)
RECURSIVE childLoop(_, _, _, _, _, _, _)
RECURSIVE siblingMiddlewares(_, _, _)
siblingMiddlewares(t, n, j) ==
  IF j < 1 THEN <<>>
  ELSE siblingMiddlewares(t, n, j - 1) \o nodeMiddlewares(t, t[n].children[j])

\* faulty variant: the chain is shared, not copied, so a child sees the middlewares
\* its elder siblings appended
childLoop_Shared(t, n, j, prefix, chain, policy, st) ==
  IF j > Len(t[n].children) \/ st.err # NoError THEN st
  ELSE LET child == t[n].children[j]
       IN  childLoop(t, n, j + 1, prefix, chain, policy,
                     traverse(t, child, Join(prefix, t[child].pattern),
                              chain \o siblingMiddlewares(t, n, j - 1), policy, st))

\* faulty variant: a child scope gets the chain as it was when the scope was
\* configured, without the middlewares registered after the scope's first action
childLoop_AtCreation(t, n, j, prefix, chain, policy, st) ==
  IF j > Len(t[n].children) \/ st.err # NoError THEN st
  ELSE LET child == t[n].children[j]
           first == t[child].actions[1]
           firstId == IF isMiddleware(first) THEN first.middleware ELSE first.handler
           early == IF t[child].actions = <<>> THEN chain
                    ELSE SelectSeq(chain, LAMBDA m : m < firstId)
       IN  childLoop(t, n, j + 1, prefix, chain, policy,
                     traverse(t, child, Join(prefix, t[child].pattern), early, policy, st))

\* phase 3: the children in creation order, stopping at the first error
childLoop(t, n, j, prefix, chain, policy, st) ==
  IF j > Len(t[n].children) \/ st.err # NoError THEN st
  ELSE LET child == t[n].children[j]
       IN  childLoop(t, n, j + 1, prefix, chain, policy,
                     traverse(t, child, Join(prefix, t[child].pattern), chain, policy, st))

\* faulty variant: the child scopes are compiled before the node's own handlers
traverse_ChildrenFirst(t, n, prefix, inheritedMiddlewares, policy, st) ==
  LET chain == combinedMiddlewares(inheritedMiddlewares, nodeMiddlewares(t, n))
      st0 == [st EXCEPT !.log = Append(@, Event("visit", n, NoKey, 0))]
  IN  handlerLoop(t, n, 1, prefix, chain, policy,
                  childLoop(t, n, 1, prefix, chain, policy, st0))

traverse(t, n, prefix, inheritedMiddlewares, policy, st) ==
  LET chain == combinedMiddlewares(inheritedMiddlewares, nodeMiddlewares(t, n))
      st0 == [st EXCEPT !.log = Append(@, Event("visit", n, NoKey, 0))]
  IN  childLoop(t, n, 1, prefix, chain, policy,
                handlerLoop(t, n, 1, prefix, chain, policy, st0))

\* the traversal state when traverse(b.node, "/", []) has returned
compile(t, policy) ==
  traverse(t, Root, <<>>, <<>>, policy,
           [registered |-> {}, mux |-> <<>>, err |-> NoError, log |-> <<>>])

\* faulty variant: the router built so far is returned together with the error
BuildResult_Partial(t, policy, notFound) ==
  LET st == compile(t, policy)
  IN  [router |-> [built |-> TRUE, mux |-> st.mux,
                   notFoundHandler |-> IF notFound = NoHandler
                                       THEN DefaultNotFound ELSE notFound],
       err |-> st.err]

\* faulty variant: the router always gets the built-in not-found handler
BuildResult_DefaultOnly(t, policy, notFound) ==
  LET st == compile(t, policy)
  IN  [router |-> IF st.err # NoError THEN NoRouter
                  ELSE [built |-> TRUE, mux |-> st.mux, notFoundHandler |-> DefaultNotFound],
       err |-> st.err]

\* faulty variant: a tree that compiles to no route is refused
BuildResult_NeedsRoute(t, policy, notFound) ==
  LET st == compile(t, policy)
  IN  IF st.mux = <<>> /\ st.err = NoError
      THEN [router |-> NoRouter, err |-> [msg |-> "no routes", key |-> NoKey]]
      ELSE [router |-> IF st.err # NoError THEN NoRouter
                       ELSE [built |-> TRUE, mux |-> st.mux,
                             notFoundHandler |-> IF notFound = NoHandler
                                                 THEN DefaultNotFound ELSE notFound],
            err |-> st.err]

\* what Build returns for tree t: the router (none on an error) and the error
BuildResult(t, policy, notFound) ==
  LET st == compile(t, policy)
  IN  [router |-> IF st.err # NoError THEN NoRouter
                  ELSE [built |-> TRUE, mux |-> st.mux,
                        notFoundHandler |-> IF notFound = NoHandler
                                            THEN DefaultNotFound ELSE notFound],
       err |-> st.err]

Build ==
  /\ router' = BuildResult(nodes, OnConflict, notFoundHandler).router
  /\ err' = BuildResult(nodes, OnConflict, notFoundHandler).err
  /\ LET st == compile(nodes, OnConflict)
     IN  trace' = [built |-> TRUE, tree |-> nodes, policy |-> OnConflict,
                   notFound |-> notFoundHandler, registered |-> st.registered, mux |-> st.mux, err |-> st.err,
                   log |-> st.log]
  /\ UNCHANGED <<nodes, stack, OnConflict, notFoundHandler, response, walked, inflight, sse>>

\* ---------------------------------------------------------------- Walk
\* fn(ha.method, fullPattern)
Call(method, fullPattern) == [ev |-> "fn", method |-> method, pattern |-> fullPattern]

\* faulty variant: a pair already reported is not reported again
RECURSIVE walkHandlers_Once(_, _, _, _, _)
walkHandlers_Once(t, n, i, prefix, calls) ==
  IF i > Len(t[n].actions) THEN calls
  ELSE IF ~isHandler(t[n].actions[i]) THEN walkHandlers_Once(t, n, i + 1, prefix, calls)
  ELSE LET c == Call(t[n].actions[i].method, Join(prefix, t[n].actions[i].pattern))
       IN  walkHandlers_Once(t, n, i + 1, prefix,
             IF \E k \in 1..Len(calls) : calls[k] = c THEN calls ELSE Append(calls, c))

\* phase 2 of Walk: fn is called for each handler action of the node
RECURSIVE walkHandlers(_, _, _, _, _)
walkHandlers(t, n, i, prefix, calls) ==
  IF i > Len(t[n].actions) THEN calls
  ELSE IF ~isHandler(t[n].actions[i]) THEN walkHandlers(t, n, i + 1, prefix, calls)
  ELSE walkHandlers(t, n, i + 1, prefix,
         Append(calls, Call(t[n].actions[i].method, Join(prefix, t[n].actions[i].pattern))))

\* Walk's traverse: the middlewares are collected and passed down, never
\* called; phase 3 visits the children in creation order
RECURSIVE walkTraverse(_, _, _, _, _)
RECURSIVE walkChildren(_, _, _, _, _, _)
\* faulty variant: the pattern of a child scope is left out of the prefix
walkChildren_NoPrefix(t, n, j, prefix, chain, calls) ==
  IF j > Len(t[n].children) THEN calls
  ELSE LET child == t[n].children[j]
       IN  walkChildren(t, n, j + 1, prefix, chain,
                        walkTraverse(t, child, prefix, chain, calls))

walkChildren(t, n, j, prefix, chain, calls) ==
  IF j > Len(t[n].children) THEN calls
  ELSE LET child == t[n].children[j]
       IN  walkChildren(t, n, j + 1, prefix, chain,
                        walkTraverse(t, child, Join(prefix, t[child].pattern), chain, calls))

walkTraverse(t, n, prefix, inheritedMiddlewares, calls) ==
  LET chain == combinedMiddlewares(inheritedMiddlewares, nodeMiddlewares(t, n))
  IN  walkChildren(t, n, 1, prefix, chain, walkHandlers(t, n, 1, prefix, calls))

\* faulty variant: Walk hands the handler actions over to fn and takes them
\* off their nodes, so that a second Walk finds none
Walk_Draining(b) ==
  /\ walked' = [done |-> TRUE, b |-> b, calls |-> walkTraverse(nodes, b, <<>>, <<>>, <<>>)]
  /\ nodes' = [n \in 1..Len(nodes) |->
                 [nodes[n] EXCEPT !.actions = SelectSeq(@, isMiddleware)]]
  /\ UNCHANGED <<stack, OnConflict, notFoundHandler, router, err, trace,
                 response, inflight, sse>>

\* b.Walk(fn) with an fn that appends its arguments to a list:
\* traverse(b.node, "/", []Middleware{})
Walk(b) ==
  /\ walked' = [done |-> TRUE, b |-> b, calls |-> walkTraverse(nodes, b, <<>>, <<>>, <<>>)]
  /\ UNCHANGED <<nodes, stack, OnConflict, notFoundHandler, router, err, trace,
                 response, inflight, sse>>

\* ---------------------------------------------------------------- ServeHTTP
\* a wildcard segment of a pattern matches any one segment of a path
isWild(seg) == seg = "{id}"

segmentsMatch(segs, psegs) ==
  \/ segs = psegs
  \/ /\ Len(segs) = Len(psegs)
     /\ \A k \in 1..Len(segs) : isWild(segs[k]) \/ segs[k] = psegs[k]

\* http.ServeMux: a pattern whose last segment is {$} matches only the path
\* that ends with a slash right there, the pattern "/" matches every path, any
\* other pattern matches the paths equal to it segment by segment, a wildcard
\* standing for any one segment
pathMatches(segs, path) ==
  IF segs = <<>> THEN TRUE
  ELSE IF segs[Len(segs)] = "{$}"
       THEN path.slash /\ segmentsMatch(SubSeq(segs, 1, Len(segs) - 1), path.segs)
       ELSE ~path.slash /\ segmentsMatch(segs, path.segs)

\* the path values of a match: the segments the wildcards stand for
pathValues(segs, path) ==
  LET wild == SelectSeq([k \in 1..Len(path.segs) |-> k],
                        LAMBDA k : k <= Len(segs) /\ isWild(segs[k]))
  IN  [n \in 1..Len(wild) |-> path.segs[wild[n]]]

wildcards(segs) == Len(SelectSeq(segs, isWild))

\* the most specific pattern among the matching ones: a literal segment
\* beats a wildcard
mostSpecific(mux, set) ==
  CHOOSE i \in set :
    \A j \in set : wildcards(mux[i].pattern[2]) <= wildcards(mux[j].pattern[2])

\* faulty variant: a pattern matches a request of any method
methodMatches_Any(pmethod, method) == TRUE

\* http.ServeMux: a pattern with a method matches the requests of that method,
\* and a GET pattern matches the HEAD requests too
methodMatches(pmethod, method) ==
  pmethod = method \/ (pmethod = "GET" /\ method = "HEAD")

matching(mux, method, path) ==
  {i \in 1..Len(mux) : methodMatches(mux[i].pattern[1], method)
                        /\ pathMatches(mux[i].pattern[2], path)}

\* the most specific matching pattern wins: any pattern beats "/"
exact(mux, method, path) ==
  {i \in matching(mux, method, path) : mux[i].pattern[2] # <<>>}

\* mux.Handler(r): the handler and its pattern; a path without a trailing slash
\* that matches nothing exactly while path + "/" does is answered by a
\* redirect (with a non-empty pattern); no match gives the pattern ""
findHandler(mux, r) ==
  LET here == exact(mux, r.method, r.path)
      slashed == [segs |-> r.path.segs, slash |-> TRUE]
      any == matching(mux, r.method, r.path)
      best == mostSpecific(mux, here)
  IN  IF here # {}
      THEN [kind |-> "route", pattern |-> mux[best].pattern, index |-> best,
            matches |-> pathValues(mux[best].pattern[2], r.path)]
      ELSE IF ~r.path.slash /\ exact(mux, r.method, slashed) # {}
      THEN [kind |-> "redirect", pattern |-> <<"redirect", slashed.segs>>, index |-> 0,
            matches |-> <<>>]
      ELSE IF any # {}
      THEN [kind |-> "route", pattern |-> mux[CHOOSE i \in any : TRUE].pattern,
            index |-> CHOOSE i \in any : TRUE, matches |-> <<>>]
      ELSE [kind |-> "none", pattern |-> NoKey, index |-> 0, matches |-> <<>>]

\* what serving a wrapped handler does: every wrapper is entered from the
\* outermost to the innermost, the raw handler runs, the wrappers are left
\* in the reverse order
Run(h) ==
  LET n == Len(h.wrappers)
  IN  [i \in 1..(2 * n + 1) |->
         IF i <= n THEN [ev |-> "enter", id |-> h.wrappers[i]]
         ELSE IF i = n + 1 THEN [ev |-> "serve", id |-> h.raw]
         ELSE [ev |-> "leave", id |-> h.wrappers[2 * n + 2 - i]]]

\* faulty variant: the dispatching pass takes the matching pattern registered
\* first, not the most specific one
muxServeHTTP_FirstRegistered(mux, r) ==
  LET any == matching(mux, r.method, r.path)
      i == CHOOSE k \in any : \A j \in any : k <= j
  IN  IF any # {}
      THEN [outcome |-> "matched", pattern |-> mux[i].pattern, by |-> NoHandler,
            events |-> Run(mux[i].handler),
            params |-> pathValues(mux[i].pattern[2], r.path)]
      ELSE [outcome |-> "mux404", pattern |-> NoKey, by |-> NoHandler, events |-> <<>>,
            params |-> <<>>]

\* mux.ServeHTTP(w, r): its own findHandler, then the handler found, called
\* with the path values of that match
muxServeHTTP(mux, r) ==
  LET f == findHandler(mux, r)
  IN  IF f.kind = "route"
      THEN [outcome |-> "matched", pattern |-> f.pattern, by |-> NoHandler,
            events |-> Run(mux[f.index].handler), params |-> f.matches]
      ELSE IF f.kind = "redirect"
      THEN [outcome |-> "redirect", pattern |-> f.pattern, by |-> NoHandler, events |-> <<>>,
            params |-> <<>>]
      ELSE [outcome |-> "mux404", pattern |-> NoKey, by |-> NoHandler, events |-> <<>>,
            params |-> <<>>]

\* faulty variant: the router falls back to the handler the builder holds when
\* the request is served
respond_BuilderFallback(rt, r, pattern) ==
  IF pattern = NoKey
  THEN [outcome |-> "fallback", pattern |-> NoKey,
        by |-> IF notFoundHandler = NoHandler THEN DefaultNotFound ELSE notFoundHandler,
        events |-> <<>>, params |-> <<>>]
  ELSE muxServeHTTP(rt.mux, r)

\* router.ServeHTTP after the existence check has returned pattern: the
\* not-found handler when it is empty, else mux.ServeHTTP
respond(rt, r, pattern) ==
  IF pattern = NoKey
  THEN [outcome |-> "fallback", pattern |-> NoKey, by |-> rt.notFoundHandler,
        events |-> <<>>, params |-> <<>>]
  ELSE muxServeHTTP(rt.mux, r)

\* router.ServeHTTP
serve(rt, r) == respond(rt, r, findHandler(rt.mux, r).pattern)

ServeHTTP(r) ==
  /\ router.built
  /\ response' = serve(router, r)
  /\ UNCHANGED <<nodes, stack, OnConflict, notFoundHandler, router, err, trace,
                 walked, inflight, sse>>

\* router.ServeHTTP run by goroutine i, one step for each of its two passes
\* over the mux.  First pass: _, pattern := rt.mux.Handler(r)
Check(i, r) ==
  /\ router.built
  /\ inflight[i].pc # "checked"
  /\ inflight' = [inflight EXCEPT ![i] = [pc |-> "checked", r |-> r,
                                          found |-> findHandler(router.mux, r),
                                          response |-> NoResponse]]
  /\ UNCHANGED <<nodes, stack, OnConflict, notFoundHandler, router, err, trace,
                 response, walked, sse>>

\* faulty variant: the dispatch moves the route it served to the front of the
\* route table
Dispatch_Caching(i) ==
  /\ inflight[i].pc = "checked"
  /\ inflight' = [inflight EXCEPT ![i].pc = "done",
                                  ![i].response =
                                    respond(router, inflight[i].r, inflight[i].found.pattern)]
  /\ router' = [router EXCEPT !.mux =
                  LET k == inflight[i].found.index
                  IN  IF k = 0 THEN @
                      ELSE <<@[k]>> \o SubSeq(@, 1, k - 1) \o SubSeq(@, k + 1, Len(@))]
  /\ UNCHANGED <<nodes, stack, OnConflict, notFoundHandler, err, trace, response, walked, sse>>

\* second pass: rt.notFoundHandler.ServeHTTP(w, r), or rt.mux.ServeHTTP(w, r)
\* with the matching pass of its own
Dispatch(i) ==
  /\ inflight[i].pc = "checked"
  /\ inflight' = [inflight EXCEPT ![i].pc = "done",
                                  ![i].response =
                                    respond(router, inflight[i].r, inflight[i].found.pattern)]
  /\ UNCHANGED <<nodes, stack, OnConflict, notFoundHandler, router, err, trace,
                 response, walked, sse>>

\* ---------------------------------------------------------------- SSE
\* json.Marshal(dataPayload)
Marshal(data) ==
  IF data = "unmarshalable" THEN [ok |-> FALSE, json |-> <<>>]
  ELSE [ok |-> TRUE, json |-> <<"json", data>>]

EventLine(name) == [line |-> "event", text |-> <<name>>]
DataLine(jsonData) == [line |-> "data", text |-> jsonData]

\* the lines of one event: "event: name\n" when the name is not empty, then
\* "data: json\n\n"
EventLines(msg) ==
  (IF msg.name # "" THEN <<EventLine(msg.name)>> ELSE <<>>)
    \o <<DataLine(Marshal(msg.data).json)>>

\* SSE up to its loop: without an http.Flusher it answers 500 and returns,
\* else it sets the headers, writes the status 200 and flushes
SSE ==
  /\ sse.pc = "start"
  /\ \E ok \in BOOLEAN :
       sse' = IF ok THEN [sse EXCEPT !.pc = "loop", !.status = 200]
              ELSE [sse EXCEPT !.pc = "returned", !.status = 500, !.cause = "unsupported"]
  /\ UNCHANGED routing

\* the producer: ch <- msg (the message waits in the channel until received)
Send(msg) ==
  /\ ~sse.closed /\ sse.sent < MaxMessages
  /\ sse' = [sse EXCEPT !.ch = Append(@, msg), !.sent = @ + 1]
  /\ UNCHANGED routing

\* the producer: close(ch)
Close ==
  /\ ~sse.closed
  /\ sse' = [sse EXCEPT !.closed = TRUE]
  /\ UNCHANGED routing

\* the client disconnects: the request context is cancelled
Cancel ==
  /\ ~sse.cancelled
  /\ sse' = [sse EXCEPT !.cancelled = TRUE]
  /\ UNCHANGED routing

\* case <-ctx.Done(): return
Done ==
  /\ sse.pc = "loop" /\ sse.cancelled
  /\ sse' = [sse EXCEPT !.pc = "returned", !.cause = "cancelled"]
  /\ UNCHANGED routing

\* faulty variant: a message that cannot be marshalled ends the stream
Receive_StopOnMarshalError ==
  /\ sse.pc = "loop"
  /\ sse.ch # <<>> \/ sse.closed
  /\ IF sse.ch = <<>>
     THEN sse' = [sse EXCEPT !.pc = "returned", !.cause = "closed"]
     ELSE LET msg == Head(sse.ch)
              got == [sse EXCEPT !.ch = Tail(@), !.received = Append(@, msg)]
          IN  IF ~Marshal(msg.data).ok
              THEN sse' = [got EXCEPT !.pc = "returned", !.cause = "marshal"]
              ELSE \E w \in WriteResults :
                     sse' = CASE w = "ok" \/ (w = "nameFails" /\ msg.name = "") ->
                                   [got EXCEPT !.out = @ \o EventLines(msg)]
                              [] w = "nameFails" /\ msg.name # "" ->
                                   [got EXCEPT !.pc = "returned", !.cause = "write"]
                              [] w = "dataFails" ->
                                   [got EXCEPT !.pc = "returned", !.cause = "write",
                                               !.out = @ \o (IF msg.name # ""
                                                             THEN <<EventLine(msg.name)>>
                                                             ELSE <<>>)]
  /\ UNCHANGED routing

\* case msg, ok := <-ch: one turn of the loop.  A closed and drained channel
\* ends the loop; a message that cannot be marshalled is logged and skipped;
\* else the event is written and flushed, and a failed write ends the loop
\* (after the event line, when it is the data line that fails)
Receive ==
  /\ sse.pc = "loop"
  /\ sse.ch # <<>> \/ sse.closed
  /\ IF sse.ch = <<>>
     THEN sse' = [sse EXCEPT !.pc = "returned", !.cause = "closed"]
     ELSE LET msg == Head(sse.ch)
              got == [sse EXCEPT !.ch = Tail(@), !.received = Append(@, msg)]
          IN  IF ~Marshal(msg.data).ok
              THEN sse' = got
              ELSE \E w \in WriteResults :
                     sse' = CASE w = "ok" \/ (w = "nameFails" /\ msg.name = "") ->
                                   [got EXCEPT !.out = @ \o EventLines(msg)]
                              [] w = "nameFails" /\ msg.name # "" ->
                                   [got EXCEPT !.pc = "returned", !.cause = "write"]
                              [] w = "dataFails" ->
                                   [got EXCEPT !.pc = "returned", !.cause = "write",
                                               !.out = @ \o (IF msg.name # ""
                                                             THEN <<EventLine(msg.name)>>
                                                             ELSE <<>>)]
  /\ UNCHANGED routing

\* ---------------------------------------------------------------- properties
\* the tree read directly: parents, paths from the root, declared middlewares
ParentOf(t, n) ==
  CHOOSE p \in 1..Len(t) : \E j \in 1..Len(t[p].children) : t[p].children[j] = n

RECURSIVE PathTo(_, _)
PathTo(t, n) == IF n = Root THEN <<Root>> ELSE Append(PathTo(t, ParentOf(t, n)), n)

IsAncestorOrSelf(t, a, n) == \E i \in 1..Len(PathTo(t, n)) : PathTo(t, n)[i] = a

DeclaredMiddlewares(t, n) ==
  LET idx == {i \in 1..Len(t[n].actions) : isMiddleware(t[n].actions[i])}
      Rank(i) == Cardinality({j \in idx : j <= i})
  IN  [k \in 1..Cardinality(idx) |->
         t[n].actions[CHOOSE i \in idx : Rank(i) = k].middleware]

RECURSIVE ChainAlong(_, _, _)
ChainAlong(t, path, k) ==
  IF k < 1 THEN <<>> ELSE ChainAlong(t, path, k - 1) \o DeclaredMiddlewares(t, path[k])

\* the middlewares of the scopes from the root down to n, each scope's in
\* declared order
ExpectedChain(t, n) == ChainAlong(t, PathTo(t, n), Len(PathTo(t, n)))

RECURSIVE PrefixAlong(_, _, _)
PrefixAlong(t, path, k) ==
  IF k < 1 THEN <<>> ELSE PrefixAlong(t, path, k - 1) \o Segments(t[path[k]].pattern)

\* the handler registrations of the tree, as (node, position) pairs
HandlerRefs(t) ==
  UNION {{<<n, i>> : i \in {k \in 1..Len(t[n].actions) : isHandler(t[n].actions[k])}} :
           n \in 1..Len(t)}

ActionAt(t, ref) == t[ref[1]].actions[ref[2]]

RefOfHandler(t, h) == CHOOSE ref \in HandlerRefs(t) : ActionAt(t, ref).handler = h

\* method + " " + join(segments of the scopes from the root, local pattern)
ExpectedKey(t, ref) ==
  <<ActionAt(t, ref).method,
    PrefixAlong(t, PathTo(t, ref[1]), Len(PathTo(t, ref[1])))
      \o Segments(ActionAt(t, ref).pattern)>>

\* pre-order: a node before its child scopes, child scopes in creation order
RECURSIVE PreorderFrom(_, _)
RECURSIVE PreorderOfChildren(_, _, _)
PreorderOfChildren(t, n, j) ==
  IF j > Len(t[n].children) THEN <<>>
  ELSE PreorderFrom(t, t[n].children[j]) \o PreorderOfChildren(t, n, j + 1)
PreorderFrom(t, n) == <<n>> \o PreorderOfChildren(t, n, 1)

\* ref1 is met before ref2 by a pre-order traversal
Before(t, ref1, ref2) ==
  LET order == PreorderFrom(t, Root)
      pos(n) == CHOOSE k \in 1..Len(order) : order[k] = n
  IN  \/ pos(ref1[1]) < pos(ref2[1])
      \/ ref1[1] = ref2[1] /\ ref1[2] < ref2[2]

\* the registration a pre-order traversal meets first among those of ref's key
FirstOfKey(t, key) ==
  CHOOSE ref \in HandlerRefs(t) :
    /\ ExpectedKey(t, ref) = key
    /\ \A other \in HandlerRefs(t) :
         ExpectedKey(t, other) = key /\ other # ref => Before(t, ref, other)

Elems(seq) == {seq[i] : i \in 1..Len(seq)}
MuxEntries(mux) == Elems(mux)
Events(log, ev) == {i \in 1..Len(log) : log[i].ev = ev}
IndexOf(events, e) == CHOOSE k \in 1..Len(events) : events[k] = e
Occurs(events, e) == \E k \in 1..Len(events) : events[k] = e
ServedHandler(resp) ==
  resp.events[CHOOSE k \in 1..Len(resp.events) : resp.events[k].ev = "serve"].id
Enter(m) == [ev |-> "enter", id |-> m]
Leave(m) == [ev |-> "leave", id |-> m]
Serve(h) == [ev |-> "serve", id |-> h]

\* the orders of a node's actions that keep the middlewares in their order and
\* the handlers in theirs
Reorderings(as) ==
  LET n == Len(as)
      perms == {f \in [1..n -> 1..n] : \A i, j \in 1..n : i # j => f[i] # f[j]}
      apply(f) == [i \in 1..n |-> as[f[i]]]
  IN  {apply(f) : f \in {g \in perms :
          /\ SelectSeq(apply(g), isMiddleware) = SelectSeq(as, isMiddleware)
          /\ SelectSeq(apply(g), isHandler) = SelectSeq(as, isHandler)}}

SameBehaviour(b1, b2) ==
  /\ b1.err = b2.err
  /\ b1.router.built = b2.router.built
  /\ b1.router.built => \A r \in Requests : serve(b1.router, r) = serve(b2.router, r)

\* C1: in every scope of the tree Build compiled, every other relative order
\* of the Use calls and the handler registrations (each kind keeping its own
\* order) compiles to the same error or to a router that serves every request
\* with the same handler inside the same middlewares in the same order.
C1_OrderIndependence ==
  trace.built =>
    \A n \in 1..Len(trace.tree) :
      \A as \in Reorderings(trace.tree[n].actions) :
        SameBehaviour([router |-> router, err |-> err],
                      BuildResult([trace.tree EXCEPT ![n].actions = as],
                                  trace.policy, notFoundHandler))

\* a handler registered before a middleware of its scope was served inside it
C1_Witness ==
  /\ response.outcome = "matched"
  /\ \E n \in 1..Len(nodes) : \E i, j \in 1..Len(nodes[n].actions) :
       /\ i < j
       /\ isHandler(nodes[n].actions[i]) /\ isMiddleware(nodes[n].actions[j])
       /\ \E k, l \in 1..Len(response.events) :
            /\ k < l
            /\ response.events[k] = [ev |-> "enter", id |-> nodes[n].actions[j].middleware]
            /\ response.events[l] = [ev |-> "serve", id |-> nodes[n].actions[i].handler]


\* C2: every handler Build wrapped got exactly the middlewares of the scopes
\* from the root down to its own scope, each scope's in declared order, the
\* ancestors' before its own, none left out and none twice.
C2_EffectiveChain ==
  trace.built =>
    \A e \in MuxEntries(trace.mux) :
      e.handler.wrappers = ExpectedChain(trace.tree, RefOfHandler(trace.tree, e.handler.raw)[1])

\* a handler in a child scope was wrapped by a middleware of an ancestor scope
\* and by one of its own scope
C2_Witness ==
  /\ trace.built
  /\ \E e \in MuxEntries(trace.mux) :
       LET n == RefOfHandler(trace.tree, e.handler.raw)[1]
       IN  /\ n # Root
           /\ DeclaredMiddlewares(trace.tree, n) # <<>>
           /\ DeclaredMiddlewares(trace.tree, ParentOf(trace.tree, n)) # <<>>
           /\ Len(e.handler.wrappers) = 2

\* C3: when a request is dispatched to a handler H, every middleware Mp of a
\* scope that contains the scope of a middleware Mc, which in turn is H's scope
\* or contains it, is entered before Mc, and both are entered before H runs.
C3_ParentBeforeChild ==
  response.outcome = "matched" =>
    LET t == trace.tree
        h == ServedHandler(response)
        c == RefOfHandler(t, h)[1]
    IN  \A p, q \in 1..Len(t) :
          (p # q /\ IsAncestorOrSelf(t, p, q) /\ IsAncestorOrSelf(t, q, c)) =>
            \A mp \in Elems(DeclaredMiddlewares(t, p)) :
              \A mc \in Elems(DeclaredMiddlewares(t, q)) :
                /\ Occurs(response.events, Enter(mp))
                /\ Occurs(response.events, Enter(mc))
                /\ IndexOf(response.events, Enter(mp)) < IndexOf(response.events, Enter(mc))
                /\ IndexOf(response.events, Enter(mc)) < IndexOf(response.events, Serve(h))

\* a request was served by a handler of a child scope with a middleware, below
\* a parent scope with a middleware
C3_Witness ==
  /\ response.outcome = "matched"
  /\ LET t == trace.tree
         c == RefOfHandler(t, ServedHandler(response))[1]
     IN  /\ c # Root
         /\ DeclaredMiddlewares(t, c) # <<>>
         /\ DeclaredMiddlewares(t, ParentOf(t, c)) # <<>>

\* C4 as stated: the last entry of the effective chain is the outermost
\* wrapper, the first to see the request and the last to see the response.
C4_LastIsOutermost ==
  response.outcome = "matched" =>
    LET chain == ExpectedChain(trace.tree,
                               RefOfHandler(trace.tree, ServedHandler(response))[1])
    IN  chain # <<>> =>
          /\ response.events[1] = Enter(chain[Len(chain)])
          /\ response.events[Len(response.events)] = Leave(chain[Len(chain)])

\* C4 amended: the first entry of the effective chain is the outermost wrapper:
\* on every request dispatched to the route it is entered first and left last,
\* and the last entry is the innermost one, next to the raw handler.
C4_FirstIsOutermost ==
  response.outcome = "matched" =>
    LET chain == ExpectedChain(trace.tree,
                               RefOfHandler(trace.tree, ServedHandler(response))[1])
        n == Len(chain)
    IN  chain # <<>> =>
          /\ response.events[1] = Enter(chain[1])
          /\ response.events[Len(response.events)] = Leave(chain[1])
          /\ response.events[n] = Enter(chain[n])
          /\ response.events[n + 1] = Serve(ServedHandler(response))
          /\ response.events[n + 2] = Leave(chain[n])

\* a request was served through a chain of two middlewares
C4_Witness ==
  /\ response.outcome = "matched"
  /\ Len(response.events) = 5
  /\ response.events[1].id # response.events[2].id

\* C5: a middleware declared in scope s wraps a handler if and only if the
\* handler is declared in s or in a scope below s; handlers of ancestor scopes,
\* of sibling scopes and of the siblings' descendants are never wrapped by it.
C5_ScopedMiddleware ==
  trace.built =>
    \A e \in MuxEntries(trace.mux) : \A s \in 1..Len(trace.tree) :
      \A k \in 1..Len(DeclaredMiddlewares(trace.tree, s)) :
        Occurs(e.handler.wrappers, DeclaredMiddlewares(trace.tree, s)[k])
          <=> IsAncestorOrSelf(trace.tree, s, RefOfHandler(trace.tree, e.handler.raw)[1])

\* two sibling scopes, the elder with a middleware, the younger with a handler
\* that was built without it
C5_Witness ==
  /\ trace.built
  /\ \E e \in MuxEntries(trace.mux) : \E s \in 1..Len(trace.tree) :
       LET n == RefOfHandler(trace.tree, e.handler.raw)[1]
       IN  /\ s # Root /\ n # Root /\ s < n
           /\ ParentOf(trace.tree, s) = ParentOf(trace.tree, n)
           /\ DeclaredMiddlewares(trace.tree, s) # <<>>
           /\ e.handler.wrappers = <<>>

\* the request path a resolved pattern stands for
PathOfPattern(segs) ==
  IF segs # <<>> /\ segs[Len(segs)] = "{$}"
  THEN [segs |-> SubSeq(segs, 1, Len(segs) - 1), slash |-> TRUE]
  ELSE [segs |-> segs, slash |-> FALSE]

\* C6: the route key Build computes for a handler registration is its method
\* with the segments of the scopes from the root down to its scope (the root
\* and a Group add none) followed by its recorded local pattern; the router
\* invokes the handler for the request path that pattern stands for and for no
\* other path.
C6_PathConcatenation ==
  trace.built =>
    /\ \A i \in Events(trace.log, "handle") \cup Events(trace.log, "conflict") :
         trace.log[i].key = ExpectedKey(trace.tree, RefOfHandler(trace.tree, trace.log[i].handler))
    /\ router.built =>
         \A e \in MuxEntries(router.mux) : \A r \in Requests :
           (/\ serve(router, r).outcome = "matched"
            /\ Occurs(serve(router, r).events, Serve(e.handler.raw)))
             <=> (r.method = e.pattern[1] /\ r.path = PathOfPattern(e.pattern[2]))

\* the handler /x of a scope /a inside a scope /a was served at /a/a/x
C6_Witness ==
  /\ response.outcome = "matched"
  /\ response.pattern = <<"GET", <<"a", "a", "x">>>>
  /\ LET ref == RefOfHandler(trace.tree, ServedHandler(response))
     IN  /\ ref[1] # Root
         /\ ParentOf(trace.tree, ref[1]) # Root
         /\ ActionAt(trace.tree, ref).pattern = "/x"

\* the registrations of the tree that resolve to key
RefsOfKey(t, key) == {ref \in HandlerRefs(t) : ExpectedKey(t, ref) = key}

\* the registration of key made by the earliest registration call
EarliestCall(t, key) ==
  CHOOSE ref \in RefsOfKey(t, key) :
    \A other \in RefsOfKey(t, key) : ActionAt(t, ref).handler <= ActionAt(t, other).handler

\* C7 as stated: under the default policy Build returns a router and no error,
\* and a request matching a route key registered more than once is served by
\* the handler of the earliest registration call.
C7_EarliestCallWins ==
  (trace.built /\ trace.policy = "warn") =>
    /\ err = NoError /\ router.built
    /\ \A e \in MuxEntries(router.mux) :
         e.handler.raw = ActionAt(trace.tree, EarliestCall(trace.tree, e.pattern)).handler

\* C7 amended: under the default policy Build returns a router and no error,
\* and a request matching a route key registered more than once, in one scope
\* or in several, is served by the handler of the registration Build's
\* traversal meets first (a scope's own handlers in declaration order, then
\* its child scopes in creation order), never by a later one.
C7_FirstInTraversalWins ==
  (trace.built /\ trace.policy = "warn") =>
    /\ err = NoError /\ router.built
    /\ \A e \in MuxEntries(router.mux) :
         e.handler.raw = ActionAt(trace.tree, FirstOfKey(trace.tree, e.pattern)).handler
    /\ \A ref \in HandlerRefs(trace.tree) : \A r \in Requests :
         (r.method = ExpectedKey(trace.tree, ref)[1]
          /\ r.path = PathOfPattern(ExpectedKey(trace.tree, ref)[2])) =>
           /\ serve(router, r).outcome = "matched"
           /\ ServedHandler(serve(router, r))
                = ActionAt(trace.tree, FirstOfKey(trace.tree, ExpectedKey(trace.tree, ref))).handler

\* a request was served where two scopes had registered the same route key
C7_Witness ==
  /\ trace.policy = "warn" /\ response.outcome = "matched"
  /\ \E r1, r2 \in RefsOfKey(trace.tree, response.pattern) : r1[1] # r2[1]

\* some registration resolves to a key another registration resolves to
HasDuplicate(t) ==
  \E r1, r2 \in HandlerRefs(t) : r1 # r2 /\ ExpectedKey(t, r1) = ExpectedKey(t, r2)

PolicyFails(policy) == \E m \in Methods : OnConflictResult(policy, <<m, <<>>>>) # NoError

C9_StopsAtFirstFatal ==
  (trace.built /\ err # NoError) =>
    LET last == trace.log[Len(trace.log)]
    IN  /\ last.ev = "conflict"
        /\ err = OnConflictResult(trace.policy, last.key)
        /\ \A i \in Events(trace.log, "conflict") :
             i < Len(trace.log) => OnConflictResult(trace.policy, trace.log[i].key) = NoError
        /\ \A i \in 1..Len(trace.log) : trace.log[i].ev # "conflict" =>
             \A j \in 1..Len(trace.log) :
               (trace.log[j].ev = "conflict"
                /\ OnConflictResult(trace.policy, trace.log[j].key) # NoError) => i < j

\* Build failed and left a handler registration or a scope unvisited
C9_Witness ==
  /\ trace.built /\ err # NoError
  /\ \/ \E ref \in HandlerRefs(trace.tree) :
          \A i \in 1..Len(trace.log) :
            trace.log[i].handler # ActionAt(trace.tree, ref).handler
     \/ \E n \in 1..Len(trace.tree) :
          \A i \in Events(trace.log, "visit") : trace.log[i].node # n

\* C10 as stated: the error of a failed Build carries the offending route key.
C10_ErrorCarriesKey ==
  (trace.built /\ err # NoError) => err.key = trace.log[Len(trace.log)].key

\* C10 amended: when Build fails on a conflict, the policy was called with the
\* route key of the duplicate registration (its method and full pattern) and
\* Build returns the policy's error as it is; the error names the route key
\* when the policy puts it there.
C10_PolicyGetsKey ==
  (trace.built /\ err # NoError) =>
    LET last == trace.log[Len(trace.log)]
        key == ExpectedKey(trace.tree, RefOfHandler(trace.tree, last.handler))
    IN  /\ last.ev = "conflict"
        /\ RefOfHandler(trace.tree, last.handler) # FirstOfKey(trace.tree, key)
        /\ err = OnConflictResult(trace.policy, key)
        /\ trace.policy = "keyed" => err.key = key

\* Build failed under the policy that quotes the key, on a key with a prefix
C10_Witness ==
  /\ trace.built /\ trace.policy = "keyed"
  /\ err # NoError /\ Len(err.key[2]) > 1

\* C11: a registration Build reaches is treated as a conflict exactly when
\* another registration met earlier by the traversal resolves to the same
\* method and full pattern, whatever scopes the two were declared in; the
\* policy's verdict is the one it gives for that key, and a registration whose
\* resolved key no earlier registration shares is registered, never a conflict.
C11_ConflictByKey ==
  trace.built =>
    \A i \in Events(trace.log, "handle") \cup Events(trace.log, "conflict") :
      LET ref == RefOfHandler(trace.tree, trace.log[i].handler)
          key == ExpectedKey(trace.tree, ref)
          verdict == OnConflictResult(trace.policy, key)
      IN  /\ trace.log[i].ev = "conflict" <=> FirstOfKey(trace.tree, key) # ref
          /\ trace.log[i].ev = "conflict" =>
                IF verdict = NoError
                THEN \A e \in MuxEntries(trace.mux) : e.handler.raw # trace.log[i].handler
                ELSE i = Len(trace.log) /\ err = verdict
          /\ trace.log[i].ev = "handle" =>
                \E e \in MuxEntries(trace.mux) :
                  e.pattern = key /\ e.handler.raw = trace.log[i].handler

\* GET /x inside the scope /a was a conflict with GET /a/x of the root
C11_Witness ==
  /\ trace.built
  /\ \E i \in Events(trace.log, "conflict") :
       LET ref == RefOfHandler(trace.tree, trace.log[i].handler)
           first == FirstOfKey(trace.tree, ExpectedKey(trace.tree, ref))
       IN  /\ ref[1] # Root /\ ActionAt(trace.tree, ref).pattern = "/x"
           /\ first[1] = Root /\ ActionAt(trace.tree, first).pattern = "/a/x"

\* the registrations that resolve to the root path
RootRefs(t) == {ref \in HandlerRefs(t) : ExpectedKey(t, ref)[2] \in {<<>>, <<"{$}">>}}

RootPath == [segs |-> <<>>, slash |-> TRUE]

\* C12: a route compiled from a registration that resolves to the root path
\* serves a request only when the request path is exactly "/".
C12_RootExactMatch ==
  router.built =>
    \A ref \in RootRefs(trace.tree) : \A r \in Requests :
      (/\ serve(router, r).outcome = "matched"
       /\ Occurs(serve(router, r).events, Serve(ActionAt(trace.tree, ref).handler)))
        => r.path = RootPath

\* C13: every request ends matched or in the fallback; the fallback is
\* invoked exactly when no compiled route matches the request, and a request
\* a route matches is served by that route's final handler.
C13_MatchedOrFallback ==
  router.built =>
    \A r \in Requests :
      LET resp == serve(router, r)
          routes == matching(router.mux, r.method, r.path)
      IN  /\ resp.outcome \in {"matched", "fallback"}
          /\ resp.outcome = "fallback" <=> routes = {}
          /\ resp.outcome = "matched" =>
                \E i \in routes : resp.pattern = router.mux[i].pattern
                                 /\ resp.events = Run(router.mux[i].handler)

\* the handler a router built from the builder's fields at Build falls back to
FixedFallback == IF trace.notFound = NoHandler THEN DefaultNotFound ELSE trace.notFound

\* C14: the router falls back to the handler the builder held when Build ran:
\* the one given to NotFound before Build, else the built-in 404 handler; an
\* unmatched request is answered by it, whatever NotFound is given afterwards.
C14_FallbackFixedAtBuild ==
  router.built =>
    /\ router.notFoundHandler = FixedFallback
    /\ \A r \in LiveRequests :
         serve(router, r).outcome = "fallback" => serve(router, r).by = FixedFallback
    /\ response.outcome = "fallback" => response.by = FixedFallback

\* an unmatched request was answered by the handler given to NotFound
C14_Witness ==
  /\ response.outcome = "fallback" /\ response.by = CustomNotFound
  /\ trace.notFound = CustomNotFound

\* C17: once Build has run the builder is sealed: its tree and its not-found
\* handler stay what they were when Build compiled them.
C17_SealedAfterBuild ==
  trace.built => (nodes = trace.tree /\ notFoundHandler = trace.notFound)

\* the action list of node b after a registration of (method, pattern) with
\* the handler of this call, when the pattern is recorded as recorded
Registered(b, method, recorded) ==
  /\ Len(nodes') = Len(nodes)
  /\ \A n \in 1..Len(nodes) : n # b => nodes'[n] = nodes[n]
  /\ nodes'[b].pattern = nodes[b].pattern
  /\ nodes'[b].children = nodes[b].children
  /\ nodes'[b].actions =
       Append(nodes[b].actions,
              [kind |-> "handler", method |-> method, pattern |-> recorded,
               handler |-> ActionCount(nodes) + 1])

\* C18 as stated: a registration call appends one handler action that records
\* the given method, the given local pattern and the given handler, and
\* changes nothing else of the tree.
C18_RecordsGivenPattern ==
  [][\A b \in 1..Len(nodes) : \A i \in HandlerInputs :
       Handle(b, i[1], i[2]) => Registered(b, i[1], i[2])]_vars

\* C18 amended: a registration call, whatever the node already holds, appends
\* one handler action to the end of its node's list, recording the given
\* method and handler and the given local pattern, except that the local
\* pattern "/" is recorded as "/{$}"; nothing else of the tree changes.
C18_AppendsOneHandlerAction ==
  [][\A b \in 1..Len(nodes) : \A i \in HandlerInputs :
       Handle(b, i[1], i[2]) =>
         Registered(b, i[1], IF i[2] = "/" THEN "/{$}" ELSE i[2])]_vars

\* a node holds two registrations of GET /, both recorded as "/{$}"
C18_Witness ==
  \E n \in 1..Len(nodes) : \E j, k \in 1..Len(nodes[n].actions) :
    /\ j < k
    /\ isHandler(nodes[n].actions[j]) /\ isHandler(nodes[n].actions[k])
    /\ nodes[n].actions[j].pattern = "/{$}" /\ nodes[n].actions[k].pattern = "/{$}"

\* C15: whatever the other goroutines do between the two passes of a request,
\* the dispatch does what the existence check found: when the check found a
\* route, that same route's final handler runs, with the path values of that
\* same match; when it found the mux's redirect, the redirect is served; when
\* it found nothing, the fallback runs.
C15_CheckAndDispatchAgree ==
  \A i \in 1..MaxInflight :
    inflight[i].pc = "done" =>
      LET found == inflight[i].found
          resp == inflight[i].response
      IN  /\ found.kind = "route" =>
                /\ resp.outcome = "matched"
                /\ resp.pattern = found.pattern
                /\ resp.events = Run(router.mux[found.index].handler)
                /\ resp.params = found.matches
          /\ found.kind = "redirect" =>
                resp.outcome = "redirect" /\ resp.pattern = found.pattern
          /\ found.kind = "none" =>
                resp.outcome = "fallback" /\ resp.by = router.notFoundHandler

\* two requests were in flight together, and one of them, for a path that a
\* literal and a wildcard pattern both match, was dispatched after the other
\* had been checked
C15_Witness ==
  /\ inflight[1].pc = "done" /\ inflight[2].pc = "checked"
  /\ inflight[1].found.kind = "route"
  /\ Cardinality(matching(router.mux, inflight[1].r.method, inflight[1].r.path)) > 1
  /\ inflight[2].found.kind = "route" /\ inflight[2].found.matches # <<>>

\* C16: however many requests the router has served and in whatever
\* interleaving, its route table and its fallback handler are those Build
\* returned, and every finished request got the answer it gets when it is
\* served alone.
C16_RouterImmutable ==
  router.built =>
    /\ router = BuildResult(trace.tree, trace.policy, trace.notFound).router
    /\ \A i \in 1..MaxInflight :
         inflight[i].pc = "done" => inflight[i].response = serve(router, inflight[i].r)

\* the router has served two requests, by two different routes
C16_Witness ==
  /\ inflight[1].pc = "done" /\ inflight[2].pc = "done"
  /\ inflight[1].response.outcome = "matched" /\ inflight[2].response.outcome = "matched"
  /\ inflight[1].response.pattern # inflight[2].response.pattern

\* C19: a middleware registered on a scope after a handler of a scope below it
\* was registered (so after that child scope was created and configured)
\* wraps that handler all the same: the handler's chain is the one given by
\* the places of the middlewares in the tree, whenever they were registered,
\* and serving the handler enters the middleware before the handler runs.
C19_LateMiddlewareWrapsChild ==
  trace.built =>
    \A e \in MuxEntries(trace.mux) :
      LET c == RefOfHandler(trace.tree, e.handler.raw)[1]
      IN  \A s \in 1..Len(trace.tree) :
            (s # c /\ IsAncestorOrSelf(trace.tree, s, c)) =>
              \A m \in Elems(DeclaredMiddlewares(trace.tree, s)) :
                m > e.handler.raw =>
                  /\ Occurs(e.handler.wrappers, m)
                  /\ e.handler.wrappers = ExpectedChain(trace.tree, c)
                  /\ Occurs(Run(e.handler), Enter(m))
                  /\ IndexOf(Run(e.handler), Enter(m))
                       < IndexOf(Run(e.handler), Serve(e.handler.raw))

\* a request was served by a handler of a child scope inside a middleware that
\* the parent scope registered after the handler
C19_Witness ==
  /\ response.outcome = "matched"
  /\ LET h == ServedHandler(response)
         c == RefOfHandler(trace.tree, h)[1]
     IN  /\ c # Root
         /\ \E m \in Elems(DeclaredMiddlewares(trace.tree, ParentOf(trace.tree, c))) :
              m > h /\ Occurs(response.events, Enter(m))

\* the scopes from b's node (left out) down to n
PathFrom(t, b, n) ==
  LET p == PathTo(t, n)
      k == CHOOSE j \in 1..Len(p) : p[j] = b
  IN  SubSeq(p, k + 1, Len(p))

\* the pairs of the handler registrations of node n, in declaration order,
\* each pattern prefixed with the segments of the scopes from b down to n
NodeCalls(t, b, n) ==
  LET hs == SelectSeq(t[n].actions, isHandler)
      scopes == PathFrom(t, b, n)
  IN  [k \in 1..Len(hs) |->
         [ev |-> "fn", method |-> hs[k].method,
          pattern |-> PrefixAlong(t, scopes, Len(scopes)) \o Segments(hs[k].pattern)]]

RECURSIVE CallsOf(_, _, _, _)
CallsOf(t, b, order, k) ==
  IF k > Len(order) THEN <<>> ELSE NodeCalls(t, b, order[k]) \o CallsOf(t, b, order, k + 1)

\* what Walk on builder b has to report: the nodes below b in pre-order
ExpectedWalk(t, b) == CallsOf(t, b, PreorderFrom(t, b), 1)

\* C20: a Walk on a builder calls fn once for every handler registration of
\* the builder's node and of the scopes below it, duplicates included, with the
\* method and the pattern joined from the builder's node down (the full
\* pattern for the root builder), a node's own handlers in declaration order
\* before those of its child scopes, the child scopes in creation order; it
\* calls nothing else and leaves the tree as it was.
C20_WalkReportsPreorder ==
  [][walked' # walked =>
       /\ nodes' = nodes
       /\ walked'.calls = ExpectedWalk(nodes, walked'.b)
       /\ Len(walked'.calls)
            = Cardinality({ref \in HandlerRefs(nodes) :
                             IsAncestorOrSelf(nodes, walked'.b, ref[1])})
       /\ \A k \in 1..Len(walked'.calls) : walked'.calls[k].ev = "fn"
       /\ response' = response /\ inflight' = inflight]_vars

\* a Walk on the root builder reported the same pair of a child scope twice
C20_Witness ==
  /\ walked.done /\ walked.b = Root
  /\ \E j, k \in 1..Len(walked.calls) :
       j < k /\ walked.calls[j] = walked.calls[k] /\ Len(walked.calls[j].pattern) > 1

\* what a Walk on builder b reports in the current state
Report(b) == walkTraverse(nodes, b, <<>>, <<>>, <<>>)

\* C21: a Walk reports what the next Walk on the same builder reports when the
\* builder is not modified in between: a step that is a Walk (walked changes)
\* or a Build (trace changes) leaves the report of every builder as it was,
\* and the sequence a Walk has handed to fn is the one a Walk made right after
\* it hands over.
C21_WalkIdempotent ==
  [][(walked' # walked \/ trace' # trace) =>
       \A b \in 1..Len(nodes) :
         /\ Report(b)' = Report(b)
         /\ (walked' # walked /\ walked'.b = b) => walked'.calls = Report(b)']_vars

\* a Walk was made on a tree with a scope and a duplicate pair, a Build
\* followed, and a Walk now reports what the first one reported
C21_Witness ==
  /\ walked.done /\ walked.b = Root /\ trace.built /\ trace.tree = nodes
  /\ Len(nodes) > 1 /\ Len(walked.calls) > 1
  /\ walked.calls = Report(Root)
  /\ \E j, k \in 1..Len(walked.calls) : j < k /\ walked.calls[j] = walked.calls[k]

\* the tree NewBuilder starts with: a root node without actions and children
EmptyTree == <<newNode("")>>

\* C22: Build of a tree without handler, middleware and scope returns no error
\* and a router whose route table is empty, and that router answers every
\* request with the fallback handler (the one given to NotFound before Build,
\* else the built-in one), running no handler and no middleware.
C22_EmptyTreeFallsBack ==
  (trace.built /\ trace.tree = EmptyTree) =>
    /\ err = NoError /\ router.built
    /\ router.mux = <<>> /\ trace.registered = {}
    /\ \A r \in Requests :
         /\ serve(router, r).outcome = "fallback"
         /\ serve(router, r).by = FixedFallback
         /\ serve(router, r).events = <<>>
    /\ response # NoResponse => response.outcome = "fallback"

\* the router built from the empty tree answered a request by the handler
\* given to NotFound
C22_Witness ==
  /\ trace.built /\ trace.tree = EmptyTree /\ router.built
  /\ response.outcome = "fallback" /\ response.by = CustomNotFound

\* C23: whenever Build stops, with a router or with an error, every route key
\* was handed to mux.Handle at most once and stands in the route table at most
\* once: the table holds one entry for each key of the registered set, in
\* the order of the registrations, each with the handler of the registration
\* that inserted it; a duplicate registration inserted nothing and replaced
\* nothing; and the router returned holds that table.
C23_RouteKeyUnique ==
  trace.built =>
    LET handles == Events(trace.log, "handle")
        conflicts == Events(trace.log, "conflict")
    IN  /\ \A i, j \in handles : i # j => trace.log[i].key # trace.log[j].key
        /\ \A j, k \in 1..Len(trace.mux) : j # k => trace.mux[j].pattern # trace.mux[k].pattern
        /\ Len(trace.mux) = Cardinality(handles)
        /\ {e.pattern : e \in MuxEntries(trace.mux)} = trace.registered
        /\ \A i \in handles :
             \E k \in 1..Len(trace.mux) :
               /\ trace.mux[k].pattern = trace.log[i].key
               /\ trace.mux[k].handler.raw = trace.log[i].handler
               /\ k = Cardinality({j \in handles : j <= i})
        /\ \A i \in conflicts :
             /\ \E j \in handles : j < i /\ trace.log[j].key = trace.log[i].key
             /\ \A e \in MuxEntries(trace.mux) : e.handler.raw # trace.log[i].handler
        /\ router.built => router.mux = trace.mux

\* Build let a duplicate of a key pass and went on to register another key
C23_Witness ==
  /\ trace.built /\ router.built
  /\ \E i \in Events(trace.log, "conflict") : \E j \in Events(trace.log, "handle") : i < j

\* C24: in a finished Build the policy was called once for every registration
\* the traversal reached whose route key an earlier registration had put in
\* the table, with that registration's route key (method and full pattern),
\* and for no other: a registration whose key was new, the same path under
\* another method included, was registered without a policy call, and a tree
\* whose route keys are pairwise distinct builds with no policy call at all.
\* Under a policy that lets every duplicate pass the calls number the
\* registrations less the distinct keys.
C24_PolicyOncePerDuplicate ==
  trace.built =>
    LET handles == Events(trace.log, "handle")
        conflicts == Events(trace.log, "conflict")
        keyOf(i) == ExpectedKey(trace.tree, RefOfHandler(trace.tree, trace.log[i].handler))
        earlier(i) == {j \in handles : j < i /\ trace.log[j].key = keyOf(i)}
    IN  /\ \A i \in conflicts :
             /\ trace.log[i].key = keyOf(i)
             /\ earlier(i) # {}
             /\ \A j \in handles \cup conflicts :
                  j # i => trace.log[j].handler # trace.log[i].handler
        /\ \A i \in handles :
             /\ trace.log[i].key = keyOf(i)
             /\ earlier(i) = {}
             /\ \A j \in handles : (j < i /\ trace.log[j].key[2] = keyOf(i)[2]) =>
                  trace.log[j].key[1] # keyOf(i)[1]
        /\ ~HasDuplicate(trace.tree) => (conflicts = {} /\ err = NoError /\ router.built)
        /\ ~PolicyFails(trace.policy) =>
             Cardinality(conflicts)
               = Cardinality(HandlerRefs(trace.tree))
                   - Cardinality({ExpectedKey(trace.tree, ref) : ref \in HandlerRefs(trace.tree)})
        /\ PolicyFails(trace.policy) => Cardinality(conflicts) <= 1

\* Build registered a path under two methods without a policy call and called
\* the policy for a second registration of one of them
C24_Witness ==
  /\ trace.built
  /\ Cardinality(Events(trace.log, "conflict")) = 1
  /\ \E i, j \in Events(trace.log, "handle") :
       /\ trace.log[i].key[2] = trace.log[j].key[2]
       /\ trace.log[i].key[1] # trace.log[j].key[1]

\* the place of child c in the children list of node p
ChildIndex(t, p, c) == CHOOSE j \in 1..Len(t[p].children) : t[p].children[j] = c

\* registration ref1 comes before ref2 in the order the claim describes: on one
\* node the one declared first; else the one whose node is an ancestor of the
\* other's; else the one in the child scope created first, below the node
\* where the two paths from the root part
ComesFirst(t, ref1, ref2) ==
  LET p1 == PathTo(t, ref1[1])
      p2 == PathTo(t, ref2[1])
      common == {k \in 1..Len(p1) : k <= Len(p2) /\ SubSeq(p1, 1, k) = SubSeq(p2, 1, k)}
      k == Cardinality(common)
  IN  IF ref1[1] = ref2[1] THEN ref1[2] < ref2[2]
      ELSE IF k = Len(p1) THEN TRUE
      ELSE IF k = Len(p2) THEN FALSE
      ELSE ChildIndex(t, p1[k], p1[k + 1]) < ChildIndex(t, p1[k], p2[k + 1])

\* C25: when the policy lets the duplicates pass, of two registrations that
\* resolve to one route key the later one in Build's order never gets the
\* entry: the entry has the handler of the registration that comes first (a
\* node's own handlers in declaration order, before every handler of its
\* descendant scopes, the child scopes in creation order), and a request for
\* that key is served by it, also when the other's registration call was the
\* earlier one.
C25_OwnBeforeDescendants ==
  (trace.built /\ ~PolicyFails(trace.policy)) =>
    \A ref1, ref2 \in HandlerRefs(trace.tree) :
      (/\ ref1 # ref2
       /\ ExpectedKey(trace.tree, ref1) = ExpectedKey(trace.tree, ref2)
       /\ ComesFirst(trace.tree, ref1, ref2)) =>
        /\ \A e \in MuxEntries(router.mux) :
             e.handler.raw # ActionAt(trace.tree, ref2).handler
        /\ (\A ref0 \in RefsOfKey(trace.tree, ExpectedKey(trace.tree, ref1)) :
               ref0 = ref1 \/ ComesFirst(trace.tree, ref1, ref0)) =>
             /\ \E e \in MuxEntries(router.mux) :
                  /\ e.pattern = ExpectedKey(trace.tree, ref1)
                  /\ e.handler.raw = ActionAt(trace.tree, ref1).handler
             /\ \A r \in Requests :
                  (r.method = ExpectedKey(trace.tree, ref1)[1]
                   /\ r.path = PathOfPattern(ExpectedKey(trace.tree, ref1)[2])) =>
                    Occurs(serve(router, r).events, Serve(ActionAt(trace.tree, ref1).handler))

\* a request was served by a handler declared on a node although a scope below
\* that node had registered the same route key by an earlier call
C25_Witness ==
  /\ trace.built /\ response.outcome = "matched"
  /\ LET ref1 == RefOfHandler(trace.tree, ServedHandler(response))
     IN  \E ref2 \in RefsOfKey(trace.tree, response.pattern) :
           /\ ref2[1] # ref1[1]
           /\ IsAncestorOrSelf(trace.tree, ref1[1], ref2[1])
           /\ ActionAt(trace.tree, ref2).handler < ActionAt(trace.tree, ref1).handler

\* C26: a call on the builder after Build (a step that leaves trace as it is)
\* changes nothing of the router Build returned: its route table, the chain of
\* every route and its fallback stay, and it answers every request as before;
\* the registrations made since show only in the router of a later Build,
\* which holds a route for every registration the builder then has (the first
\* of a key inside the middlewares the builder then has) and the fallback the
\* builder then has.
C26_RouterUnaffected ==
  [][/\ (router.built /\ trace' = trace) =>
          /\ router' = router
          /\ (nodes' # nodes \/ notFoundHandler' # notFoundHandler) =>
               \A r \in LiveRequests : serve(router, r)' = serve(router, r)
     /\ (trace' # trace /\ router'.built) =>
          /\ nodes' = nodes /\ notFoundHandler' = notFoundHandler
          /\ \A ref \in HandlerRefs(nodes) :
               \E e \in MuxEntries(router'.mux) :
                 /\ e.pattern = ExpectedKey(nodes, ref)
                 /\ ref = FirstOfKey(nodes, ExpectedKey(nodes, ref)) =>
                      /\ e.handler.raw = ActionAt(nodes, ref).handler
                      /\ e.handler.wrappers = ExpectedChain(nodes, ref[1])
          /\ router'.notFoundHandler
               = IF notFoundHandler = NoHandler THEN DefaultNotFound ELSE notFoundHandler]_vars

\* the builder got a route, a middleware and a not-found handler after Build,
\* and the router Build had returned answers a request for that route by its
\* built-in fallback
C26_Witness ==
  /\ router.built /\ trace.notFound = NoHandler /\ notFoundHandler = CustomNotFound
  /\ ActionCount(trace.tree) < ActionCount(nodes)
  /\ \E ref \in HandlerRefs(nodes) :
       /\ \A e \in MuxEntries(router.mux) : e.pattern # ExpectedKey(nodes, ref)
       /\ response.outcome = "fallback" /\ response.by = DefaultNotFound
       /\ \A r \in LiveRequests :
            (r.path = PathOfPattern(ExpectedKey(nodes, ref)[2])) =>
              serve(router, r) = response

\* the routes whose path pattern matches the path of r, under any method
PathRoutes(mux, r) == {i \in 1..Len(mux) : pathMatches(mux[i].pattern[2], r.path)}

\* the routes registered under the method of r among them
OwnMethodRoutes(mux, r) == {i \in PathRoutes(mux, r) : mux[i].pattern[1] = r.method}

RECURSIVE Dedup(_)
Dedup(seq) ==
  IF seq = <<>> THEN <<>>
  ELSE LET front == Dedup(SubSeq(seq, 1, Len(seq) - 1))
           last == seq[Len(seq)]
       IN  IF \E k \in 1..Len(front) : front[k] = last THEN front ELSE Append(front, last)

\* the route key of a pair handed to fn: method + " " + pattern
KeysOf(calls) == [k \in 1..Len(calls) |-> <<calls[k].method, calls[k].pattern>>]

\* C28: for the tree Build compiled under a policy that lets duplicates pass,
\* the pairs Walk on the root builder reports for that tree, each taken at its
\* first occurrence only, are the route keys Build handed to mux.Handle, in
\* the same order; they are the keys of the route table and of the registered
\* set, and a Walk made on the compiled tree has reported just those pairs.
C28_WalkMatchesBuild ==
  (trace.built /\ ~PolicyFails(trace.policy)) =>
    LET calls == walkTraverse(trace.tree, Root, <<>>, <<>>, <<>>)
        keys == KeysOf(Dedup(calls))
    IN  /\ keys = [i \in 1..Len(trace.mux) |-> trace.mux[i].pattern]
        /\ router.built /\ router.mux = trace.mux
        /\ Elems(keys) = trace.registered
        /\ Elems(KeysOf(calls))
             = {ExpectedKey(trace.tree, ref) : ref \in HandlerRefs(trace.tree)}
        /\ (walked.done /\ walked.b = Root /\ nodes = trace.tree
            /\ walked.calls = Report(Root)) =>
             KeysOf(Dedup(walked.calls)) = [i \in 1..Len(router.mux) |-> router.mux[i].pattern]

\* Walk reported three pairs of a tree with a scope, one of them a repeat, and
\* Build compiled the same tree to two routes
C28_Witness ==
  /\ walked.done /\ walked.b = Root /\ trace.built /\ router.built
  /\ nodes = trace.tree /\ Len(nodes) > 1
  /\ walked.calls = Report(Root)
  /\ Len(walked.calls) = 3 /\ Len(router.mux) = 2
  /\ \E k \in 1..Len(walked.calls) : Len(walked.calls[k].pattern) > 1

\* the places (parent, position) at which node n stands in a children list
PlacesOf(t, n) ==
  {pl \in UNION {{<<p, j>> : j \in 1..Len(t[p].children)} : p \in 1..Len(t)} :
     t[pl[1]].children[pl[2]] = n}

\* the nodes reached from the nodes of set by following children lists
RECURSIVE ReachableFrom(_, _)
ReachableFrom(t, set) ==
  LET next == set \cup UNION {Elems(t[n].children) : n \in set}
  IN  IF next = set THEN set ELSE ReachableFrom(t, next)

\* node n lies below itself
OnCycle(t, n) == n \in ReachableFrom(t, Elems(t[n].children))

\* t is a tree rooted at Root
IsTree(t) ==
  /\ PlacesOf(t, Root) = {}
  /\ \A n \in 2..Len(t) : Cardinality(PlacesOf(t, n)) = 1
  /\ \A n \in 1..Len(t) : ~OnCycle(t, n)
  /\ ReachableFrom(t, {Root}) = 1..Len(t)

\* the step added one node with the given pattern, without actions and
\* children, as the last child of node b, and changed nothing else of the tree
AddsLastChild(b, pattern) ==
  /\ Len(nodes') = Len(nodes) + 1
  /\ nodes'[Len(nodes')] = [pattern |-> pattern, actions |-> <<>>, children |-> <<>>]
  /\ nodes'[b].children = Append(nodes[b].children, Len(nodes'))
  /\ nodes'[b].actions = nodes[b].actions /\ nodes'[b].pattern = nodes[b].pattern
  /\ \A n \in 1..Len(nodes) : n # b => nodes'[n] = nodes[n]

\* C29: whatever registration, Use, Route and Group calls are made, nested
\* ones included, the configuration stays a tree rooted at the root node: the
\* root is in no children list, every other node is in exactly one children
\* list exactly once, no node lies below itself and every node is reached
\* from the root; a Route or Group call on a builder adds exactly one new
\* node, as the last child of that builder's node, also when a sibling has
\* the same segment; no other call adds a node or changes a children list.
C29_TreeShape ==
  [][/\ IsTree(nodes) /\ IsTree(nodes')
     /\ \A b \in 1..Len(nodes) :
          /\ \A p \in ScopePatterns : Route(b, p) => AddsLastChild(b, p)
          /\ Group(b) => AddsLastChild(b, "")
     /\ stack' = stack =>
          /\ Len(nodes') = Len(nodes)
          /\ \A n \in 1..Len(nodes) :
               nodes'[n].children = nodes[n].children /\ nodes'[n].pattern = nodes[n].pattern]_vars

\* the root has two child scopes of the same segment
C29_Witness ==
  /\ Len(nodes[Root].children) = 2
  /\ nodes[nodes[Root].children[1]].pattern = "/a"
  /\ nodes[nodes[Root].children[2]].pattern = "/a"
  /\ nodes[Root].children[1] # nodes[Root].children[2]

\* the lines of the events of the messages that can be marshalled, in order
RECURSIVE ExpectedOut(_)
ExpectedOut(msgs) ==
  IF msgs = <<>> THEN <<>>
  ELSE (IF Marshal(Head(msgs).data).ok THEN EventLines(Head(msgs)) ELSE <<>>)
         \o ExpectedOut(Tail(msgs))

Front(seq) == SubSeq(seq, 1, Len(seq) - 1)
Last(seq) == seq[Len(seq)]

StreamInvariant ==
  /\ sse.pc = "returned" <=> sse.cause # "nil"
  /\ sse.cause \in {"nil", "unsupported", "closed", "cancelled", "write"}
  /\ sse.cause = "unsupported" => (sse.status = 500 /\ sse.received = <<>> /\ sse.out = <<>>)
  /\ sse.cause = "closed" => (sse.closed /\ sse.ch = <<>>)
  /\ sse.cause = "cancelled" => sse.cancelled
  /\ sse.cause # "write" => sse.out = ExpectedOut(sse.received)
  /\ sse.cause = "write" =>
       /\ sse.received # <<>> /\ Marshal(Last(sse.received).data).ok
       /\ \/ sse.out = ExpectedOut(Front(sse.received))
          \/ /\ Last(sse.received).name # ""
             /\ sse.out = ExpectedOut(Front(sse.received))
                            \o <<EventLine(Last(sse.received).name)>>

\* a turn of the loop that receives a message json.Marshal refuses writes
\* nothing and leaves the loop running; the messages are received in the
\* order they were sent
SkipsUnmarshalable ==
  /\ (sse'.received # sse.received /\ ~Marshal(Last(sse'.received).data).ok) =>
       (sse'.pc = "loop" /\ sse'.out = sse.out)
  /\ sse'.received # sse.received =>
       (sse'.received = Append(sse.received, Head(sse.ch)) /\ sse'.ch = Tail(sse.ch))

Init ==
  /\ nodes = <<newNode("")>>
  /\ stack = <<>>
  /\ OnConflict = "warn"
  /\ notFoundHandler = NoHandler
  /\ router = NoRouter
  /\ err = NoError
  /\ trace = NoTrace
  /\ response = NoResponse
  /\ walked = NoWalk
  /\ inflight = [i \in 1..MaxInflight |-> Idle]
  /\ sse = NoStream

\* the documented lifecycle: the tree is configured, then Build is called on
\* the root builder (in scope again once the scope callbacks have returned),
\* then the router it returned serves requests
Configuring == ~trace.built

Next ==
  \/ \E b \in Builders, i \in HandlerInputs : Configuring /\ Handle(b, i[1], i[2])
  \/ \E b \in Builders : Configuring /\ Use(b)
  \/ \E b \in Builders, p \in ScopePatterns : Configuring /\ Route(b, p)
  \/ \E b \in Builders : Configuring /\ Group(b)
  \/ Configuring /\ ScopeReturn
  \/ \E p \in Policies : Configuring /\ SetOnConflict(p)
  \/ Configuring /\ Root \in Builders /\ Build
  \/ \E r \in Requests : ServeHTTP(r)

Spec == Init /\ [][Next]_vars

\* the same lifecycle over the direct inputs, with a not-found handler set
\* before Build and no middlewares
NextDirect ==
  \/ \E b \in Builders, i \in DirectInputs : Configuring /\ Handle(b, i[1], i[2])
  \/ \E b \in Builders, p \in ScopePatterns : Configuring /\ Route(b, p)
  \/ Configuring /\ ScopeReturn
  \/ \E p \in {"warn", "custom"} : Configuring /\ SetOnConflict(p)
  \/ \E h \in {CustomNotFound} : Configuring /\ NotFound(h)
  \/ Configuring /\ Root \in Builders /\ Build
  \/ \E r \in Requests : ServeHTTP(r)

SpecDirect == Init /\ [][NextDirect]_vars

\* nothing in the code ties the calls to the lifecycle: the builder's methods
\* can be called after Build as before it, while the router Build returned
\* serves requests
NextLive ==
  \/ \E b \in Builders, i \in LiveInputs : Handle(b, i[1], i[2])
  \/ \E b \in Builders : Use(b)
  \/ \E b \in Builders, p \in ScopePatterns : Route(b, p)
  \/ ScopeReturn
  \/ \E h \in {CustomNotFound} : Root \in Builders /\ NotFound(h)
  \/ Configuring /\ Root \in Builders /\ Build
  \/ \E r \in LiveRequests : ServeHTTP(r)

SpecLive == Init /\ [][NextLive]_vars

\* one router serving several requests at the same time, each goroutine
\* taking its two passes in any interleaving with the others
NextServe ==
  \/ \E b \in Builders, i \in ServeInputs : Configuring /\ Handle(b, i[1], i[2])
  \/ \E b \in Builders : Configuring /\ Use(b)
  \/ \E b \in Builders, p \in ScopePatterns : Configuring /\ Route(b, p)
  \/ Configuring /\ ScopeReturn
  \/ Configuring /\ Root \in Builders /\ Build
  \/ \E i \in 1..MaxInflight, r \in ServeRequests : Check(i, r)
  \/ \E i \in 1..MaxInflight : Dispatch(i)

SpecServe == Init /\ [][NextServe]_vars

\* configuration and introspection: Walk is called on the builder in scope at
\* any point of the configuration
NextWalk ==
  \/ \E b \in Builders, i \in HandlerInputs : Handle(b, i[1], i[2])
  \/ \E b \in Builders : Use(b)
  \/ \E b \in Builders, p \in ScopePatterns : Route(b, p)
  \/ \E b \in Builders : Group(b)
  \/ ScopeReturn
  \/ \E b \in Builders : Walk(b)

SpecWalk == Init /\ [][NextWalk]_vars

\* introspection around the compilation: Walk before Build and after it, on a
\* builder that goes on being configured
NextInspect ==
  \/ \E b \in Builders, i \in HandlerInputs : Handle(b, i[1], i[2])
  \/ \E b \in Builders, p \in ScopePatterns : Route(b, p)
  \/ \E b \in Builders : Group(b)
  \/ ScopeReturn
  \/ \E b \in Builders : Walk(b)
  \/ Configuring /\ Root \in Builders /\ Build

SpecInspect == Init /\ [][NextInspect]_vars

\* a builder that goes on being configured and compiled again while routers
\* it has returned serve requests
NextRebuild ==
  \/ \E b \in Builders, i \in LiveInputs : Handle(b, i[1], i[2])
  \/ \E b \in Builders : Use(b)
  \/ \E b \in Builders, p \in ScopePatterns : Route(b, p)
  \/ ScopeReturn
  \/ \E h \in {CustomNotFound} : Root \in Builders /\ NotFound(h)
  \/ Root \in Builders /\ Build
  \/ \E r \in LiveRequests : ServeHTTP(r)

SpecRebuild == Init /\ [][NextRebuild]_vars

\* one router and one request at a time, under every request method
NextMethods ==
  \/ \E b \in Builders, i \in HandlerInputs : Configuring /\ Handle(b, i[1], i[2])
  \/ \E b \in Builders, p \in ScopePatterns : Configuring /\ Route(b, p)
  \/ Configuring /\ ScopeReturn
  \/ Configuring /\ Root \in Builders /\ Build
  \/ \E r \in MethodRequests : Check(1, r)
  \/ Dispatch(1)

SpecMethods == Init /\ [][NextMethods]_vars

\* one SSE stream: the handler's loop, the producer of the channel and the
\* client
NextSSE ==
  \/ SSE
  \/ \E msg \in Messages : Send(msg)
  \/ Close
  \/ Cancel
  \/ Done
  \/ Receive

\* the goroutine running SSE is scheduled, and a select with a ready case
\* takes one; Go's select chooses among the ready cases at random, so a case
\* that stays ready is taken in the end
SpecSSE ==
  Init /\ [][NextSSE]_vars /\ WF_vars(SSE) /\ WF_vars(Done) /\ WF_vars(Receive)

====
